---- MODULE Spec2Model ----
(***************************************************************************)
(* Model of the anubis location calculator (src/anubis/anubis.py and       *)
(* src/anubis/consts.py).                                                  *)
(*                                                                         *)
(* Python floats are modelled as exact rationals <<n, d>> with d > 0 in    *)
(* lowest terms, so floating-point rounding is abstracted away.  math.pi   *)
(* is the rational 355/113 and math.atan is a rational approximation       *)
(* rounded to a milliradian.  The spherical projection of lines 74-80 and  *)
(* the polar conversion of lines 142-143 (math.cos, math.sin, math.tan,    *)
(* math.log, the division by RADIUS and the arithmetic on their results)   *)
(* are kept as applications (terms), built exactly as those lines build    *)
(* them: their values are not rationals of bounded size.                   *)
(*                                                                         *)
(* A call is a record of keyword arguments (both position functions are    *)
(* keyword-only).  The outcome of a call is a record holding the exception *)
(* raised ("None" when the call returns), the returned value, the float    *)
(* locals of the frame that were bound when the call ended, and the module *)
(* globals of consts.py after the call.                                    *)
(***************************************************************************)
EXTENDS Integers, Sequences, FiniteSets, TLC

VARIABLES pc, fn, kw, exc, ret, locals, globals

vars == <<pc, fn, kw, exc, ret, locals, globals>>

(* ------------------------------ bounds -------------------------------- *)

\* Pixel quantities (sensor size, target centre, target height) range over 0..MaxPx.
MaxPx == 3

(* --------------------------- Python values ---------------------------- *)

\* Python's None; also the value of a local that is not bound.
None == <<>>

RECURSIVE GCD(_, _)
GCD(a, b) == IF b = 0 THEN a ELSE GCD(b, a % b)

Abs(n) == IF n < 0 THEN -n ELSE n

\* The float n/d (d # 0), in lowest terms with a positive denominator.
Norm(n, d) ==
    LET g == GCD(Abs(n), Abs(d))
        s == IF d < 0 THEN -1 ELSE 1
    IN  <<(s * n) \div g, (s * d) \div g>>

\* int -> float promotion.
R(n) == <<n, 1>>

IsZero(a) == a[1] = 0

Neg(a) == <<-a[1], a[2]>>

Add(a, b) ==
    LET g == GCD(a[2], b[2])
    IN  Norm(a[1] * (b[2] \div g) + b[1] * (a[2] \div g), (a[2] \div g) * b[2])

Sub(a, b) == Add(a, Neg(b))

Mul(a, b) ==
    LET g1 == GCD(Abs(a[1]), b[2])
        g2 == GCD(Abs(b[1]), a[2])
    IN  Norm((a[1] \div g1) * (b[1] \div g2), (a[2] \div g2) * (b[2] \div g1))

\* a / b for b # 0; every use is guarded by the ZeroDivisionError test.
Div(a, b) == Mul(a, Norm(b[2], b[1]))

Lt(a, b) == a[1] * b[2] < b[1] * a[2]

Gt(a, b) == Lt(b, a)

Floor(a) == a[1] \div a[2]

\* math.pi
PI == <<355, 113>>

\* Faulty variant of PyMod: C's fmod, whose result has the sign of a.
FMod(a, m) ==
    LET t == Div(a, m)
        trunc == IF t[1] < 0 THEN -((-t[1]) \div t[2]) ELSE t[1] \div t[2]
    IN  Sub(a, Mul(m, R(trunc)))

\* Python's float % with a positive modulus: the result has the sign of m.
PyMod(a, m) == Sub(a, Mul(m, R(Floor(Div(a, m)))))

\* x * 180 / math.pi, also math.degrees(x).
Degrees(x) == Div(Mul(x, R(180)), PI)

\* math.radians(x)
Radians(x) == Div(Mul(x, PI), R(180))

\* math.atan on [0, 1]: x / (1 + 0.28 x^2) for x = p/q, rounded to 1/1000 rad.
ATanUnit(p, q) ==
    LET den == 25 * q * q + 7 * p * p
    IN  Norm((50000 * p * q + den) \div (2 * den), 1000)

\* math.atan: odd, and atan(x) = pi/2 - atan(1/x) for x > 1.
ATan(x) ==
    LET p == Abs(x[1])
        q == x[2]
        v == IF p <= q THEN ATanUnit(p, q)
             ELSE Sub(Div(PI, R(2)), ATanUnit(q, p))
    IN  IF x[1] < 0 THEN Neg(v) ELSE v

\* The value of an expression over math.cos, math.sin, math.tan, math.log:
\* the application of f to its arguments, not evaluated.
App(f, args) == [app |-> f, args |-> args]

(* ---------------------------- consts.py ------------------------------- *)

RADIUS == 6371000

FOCAL_LENGTH == 22

SENSOR_WIDTH == 7

probable_heights ==
    ("person" :> <<17, 10>>) @@ ("car" :> <<8, 5>>) @@ ("motorcycle" :> <<1, 1>>)
    @@ ("truck" :> <<9, 5>>) @@ ("airplane" :> <<15, 1>>)
    @@ ("traffic light" :> <<3, 5>>) @@ ("boat" :> <<30, 1>>)

\* The module globals of consts.py as anubis.py imports them.
Consts ==
    [RADIUS |-> RADIUS, FOCAL_LENGTH |-> FOCAL_LENGTH,
     SENSOR_WIDTH |-> SENSOR_WIDTH, probable_heights |-> probable_heights]

(* ------------------------- calls and outcomes ------------------------- *)

\* The locals of the two position functions whose values are floats computed
\* by arithmetic alone; the locals of the projections are parts of the
\* returned terms.
LocalNames ==
    {"focal_length", "sensor_width", "sensor_height", "bearing_center_deg",
     "probable_height", "height_on_sensor", "field_of_view", "distance_to_object",
     "target_bearing_deg", "target_bearing", "zconst", "targetZ"}

\* A frame in which no local is bound yet.
Unbound == [n \in LocalNames |-> None]

Outcome(e, r, l, g) == [exc |-> e, ret |-> r, locals |-> l, globals |-> g]

Raise(e, l, g) == Outcome(e, None, l, g)

\* Keyword-only binding: an unexpected keyword or a missing required one
\* is a TypeError raised before the body runs.
Binds(k, params, required) == DOMAIN k \subseteq params /\ required \subseteq DOMAIN k

\* The parameters after binding; an omitted optional one takes its default None.
Bound(k, params) == [p \in params |-> IF p \in DOMAIN k THEN k[p] ELSE None]

PosParams ==
    {"classification", "bearing_center", "source_lat", "source_lon",
     "sensor_width_px", "sensor_height_px", "target_center_x", "target_center_y",
     "target_width_px", "target_height_px", "altitude", "focal_length",
     "sensor_width"}

PosRequired ==
    PosParams \ {"target_center_y", "target_width_px", "focal_length", "sensor_width"}

LocalPosParams ==
    {"classification", "bearing_center", "sensor_width_px", "sensor_height_px",
     "target_center_x", "target_center_y", "target_height_px", "focal_length",
     "sensor_width"}

LocalPosRequired == LocalPosParams \ {"focal_length", "sensor_width"}

(* ------------------------ shared computations ------------------------- *)

\* focal_length / sensor_width: the module default when the argument is None.
OrDefault(v, default) == IF v = None THEN R(default) ELSE v

\* sensor_width * (sensor_height_px / sensor_width_px), sensor_width_px # 0
SensorHeight(sensor_width, sensor_height_px, sensor_width_px) ==
    Mul(sensor_width, Div(R(sensor_height_px), R(sensor_width_px)))

\* (bearing_center * 180 / math.pi + 360) % 360
BearingCenterDeg(bearing_center) ==
    PyMod(Add(Div(Mul(bearing_center, R(180)), PI), R(360)), R(360))

\* Faulty variant of ProbableHeight: a person's height as the default.
ProbableHeightPersonDefault(heights, classification) ==
    IF classification \in DOMAIN heights THEN heights[classification] ELSE <<17, 10>>

\* probable_heights.get(classification, 1.0)
ProbableHeight(heights, classification) ==
    IF classification \in DOMAIN heights THEN heights[classification] ELSE R(1)

\* Faulty variant of AltitudeCorrection: the boundary taken as altitude >= 40.
AltitudeCorrectionInclusive(probable_height, altitude) ==
    IF ~Lt(altitude, R(40)) THEN Mul(probable_height, R(2)) ELSE probable_height

\* if altitude > 40: probable_height *= 2
AltitudeCorrection(probable_height, altitude) ==
    IF Gt(altitude, R(40)) THEN Mul(probable_height, R(2)) ELSE probable_height

\* Faulty variant of HeightsAfterCorrection: the corrected height stored
\* back into the table.
HeightsAfterCorrectionStored(heights, classification, probable_height) ==
    [c \in DOMAIN heights \cup {classification} |->
        IF c = classification THEN probable_height ELSE heights[c]]

\* The table after lines 60-63: probable_height is a float bound to a local,
\* and *= rebinds that local; the dict entry is not written.
HeightsAfterCorrection(heights, classification, probable_height) == heights

\* Faulty variant of HeightOnSensor: a zero target height replaced by one pixel.
HeightOnSensorClamped(sensor_height, target_height_px, sensor_height_px) ==
    Div(Mul(sensor_height, R(IF target_height_px = 0 THEN 1 ELSE target_height_px)),
        R(sensor_height_px))

\* (sensor_height * target_height_px) / sensor_height_px, sensor_height_px # 0
HeightOnSensor(sensor_height, target_height_px, sensor_height_px) ==
    Div(Mul(sensor_height, R(target_height_px)), R(sensor_height_px))

\* math.degrees(2 * math.atan((sensor_width / 2) / focal_length)), focal_length # 0
FieldOfView(sensor_width, focal_length) ==
    Degrees(Mul(R(2), ATan(Div(Div(sensor_width, R(2)), focal_length))))

\* Faulty variant of DistanceToObject: - in place of *.
DistanceToObjectMinus(probable_height, focal_length, height_on_sensor) ==
    Div(Sub(probable_height, focal_length), height_on_sensor)

\* (probable_height * focal_length) / height_on_sensor, height_on_sensor # 0
DistanceToObject(probable_height, focal_length, height_on_sensor) ==
    Div(Mul(probable_height, focal_length), height_on_sensor)

\* Faulty variant of TargetBearingDeg: the pixel term measured from the
\* left edge without the half field of view taken off.
TargetBearingDegFromEdge(bearing_center_deg, field_of_view, target_center_x, sensor_width_px) ==
    Add(bearing_center_deg,
        Div(R(target_center_x), Div(R(sensor_width_px), field_of_view)))

\* (bearing_center_deg - (field_of_view / 2))
\*     + ((target_center_x) / (sensor_width_px / field_of_view))
TargetBearingDeg(bearing_center_deg, field_of_view, target_center_x, sensor_width_px) ==
    Add(Sub(bearing_center_deg, Div(field_of_view, R(2))),
        Div(R(target_center_x), Div(R(sensor_width_px), field_of_view)))

\* l with the locals named in the record b bound to b's values.
Assign(l, b) == [n \in LocalNames |-> IF n \in DOMAIN b THEN b[n] ELSE l[n]]

\* Faulty variant of TargetZ: the upper half without the factor -1.
TargetZUnsigned(sensor_height_px, target_center_y, zconst) ==
    IF Lt(Div(R(sensor_height_px), R(2)), R(target_center_y))
    THEN Mul(R(sensor_height_px - target_center_y), zconst)
    ELSE Mul(Sub(Div(R(sensor_height_px), R(2)), R(target_center_y)), zconst)

\* targetZ of get_event_local_pos: the branch on the half of the frame.
TargetZ(sensor_height_px, target_center_y, zconst) ==
    IF Lt(Div(R(sensor_height_px), R(2)), R(target_center_y))
    THEN Mul(R(sensor_height_px - target_center_y), zconst)
    ELSE Mul(Mul(Sub(Div(R(sensor_height_px), R(2)), R(target_center_y)), zconst), R(-1))

(* --------------------------- get_event_pos ---------------------------- *)

get_event_pos(g, k) ==
    IF ~Binds(k, PosParams, PosRequired) THEN Raise("TypeError", Unbound, g) ELSE
    LET a == Bound(k, PosParams)
        focal_length == OrDefault(a.focal_length, g.FOCAL_LENGTH)
        sensor_width == OrDefault(a.sensor_width, g.SENSOR_WIDTH)
        l0 == Assign(Unbound, [focal_length |-> focal_length, sensor_width |-> sensor_width])
    IN
    IF a.sensor_width_px = 0 THEN Raise("ZeroDivisionError", l0, g) ELSE
    LET sensor_height == SensorHeight(sensor_width, a.sensor_height_px, a.sensor_width_px)
        bearing_center_deg == BearingCenterDeg(a.bearing_center)
        probable_height ==
            AltitudeCorrection(ProbableHeight(g.probable_heights, a.classification),
                               a.altitude)
        l1 == Assign(l0, [sensor_height |-> sensor_height,
                          bearing_center_deg |-> bearing_center_deg,
                          probable_height |-> probable_height])
        g1 == [g EXCEPT !.probable_heights =
                   HeightsAfterCorrection(@, a.classification, probable_height)]
    IN
    IF a.sensor_height_px = 0 THEN Raise("ZeroDivisionError", l1, g1) ELSE
    LET height_on_sensor ==
            HeightOnSensor(sensor_height, a.target_height_px, a.sensor_height_px)
        l2 == Assign(l1, [height_on_sensor |-> height_on_sensor])
    IN
    IF IsZero(focal_length) THEN Raise("ZeroDivisionError", l2, g1) ELSE
    LET field_of_view == FieldOfView(sensor_width, focal_length)
        l3 == Assign(l2, [field_of_view |-> field_of_view])
    IN
    IF IsZero(height_on_sensor) THEN Raise("ZeroDivisionError", l3, g1) ELSE
    LET distance_to_object == DistanceToObject(probable_height, focal_length, height_on_sensor)
        l4 == Assign(l3, [distance_to_object |-> distance_to_object])
    IN
    IF IsZero(field_of_view) THEN Raise("ZeroDivisionError", l4, g1) ELSE
    LET target_bearing_deg ==
            TargetBearingDeg(bearing_center_deg, field_of_view, a.target_center_x,
                             a.sensor_width_px)
        target_bearing == Radians(target_bearing_deg)
        dr == App("div", <<distance_to_object, R(g.RADIUS)>>)
        lat_delta == App("mul", <<dr, App("cos", <<target_bearing>>)>>)
        target_lat == App("add", <<a.source_lat, lat_delta>>)
        delta ==
            App("log",
                <<App("div",
                      <<App("tan", <<App("add", <<App("div", <<target_lat, R(2)>>),
                                                  Div(PI, R(4))>>)>>),
                        App("tan", <<Add(Div(a.source_lat, R(2)), Div(PI, R(4)))>>)>>)>>)
        q == App("if", <<App("gt", <<App("abs", <<delta>>), "10e-12">>),
                         App("div", <<lat_delta, delta>>),
                         App("cos", <<a.source_lat>>)>>)
        lon_delta == App("div", <<App("mul", <<dr, App("sin", <<target_bearing>>)>>), q>>)
        target_lon == App("add", <<a.source_lon, lon_delta>>)
        l5 == Assign(l4, [target_bearing_deg |-> target_bearing_deg,
                          target_bearing |-> target_bearing])
    IN  Outcome("None", <<target_lat, target_lon>>, l5, g1)

(* ------------------------ get_event_local_pos ------------------------- *)

get_event_local_pos(g, k) ==
    IF ~Binds(k, LocalPosParams, LocalPosRequired) THEN Raise("TypeError", Unbound, g) ELSE
    LET a == Bound(k, LocalPosParams)
        focal_length == OrDefault(a.focal_length, g.FOCAL_LENGTH)
        sensor_width == OrDefault(a.sensor_width, g.SENSOR_WIDTH)
        l0 == Assign(Unbound, [focal_length |-> focal_length, sensor_width |-> sensor_width])
    IN
    IF a.sensor_width_px = 0 THEN Raise("ZeroDivisionError", l0, g) ELSE
    LET sensor_height == SensorHeight(sensor_width, a.sensor_height_px, a.sensor_width_px)
        bearing_center_deg == BearingCenterDeg(a.bearing_center)
        probable_height == ProbableHeight(g.probable_heights, a.classification)
        l1 == Assign(l0, [sensor_height |-> sensor_height,
                          bearing_center_deg |-> bearing_center_deg,
                          probable_height |-> probable_height])
    IN
    IF a.sensor_height_px = 0 THEN Raise("ZeroDivisionError", l1, g) ELSE
    LET height_on_sensor ==
            HeightOnSensor(sensor_height, a.target_height_px, a.sensor_height_px)
        l2 == Assign(l1, [height_on_sensor |-> height_on_sensor])
    IN
    IF IsZero(focal_length) THEN Raise("ZeroDivisionError", l2, g) ELSE
    LET field_of_view == FieldOfView(sensor_width, focal_length)
        l3 == Assign(l2, [field_of_view |-> field_of_view])
    IN
    IF IsZero(height_on_sensor) THEN Raise("ZeroDivisionError", l3, g) ELSE
    LET distance_to_object == DistanceToObject(probable_height, focal_length, height_on_sensor)
        l4 == Assign(l3, [distance_to_object |-> distance_to_object])
    IN
    IF IsZero(field_of_view) THEN Raise("ZeroDivisionError", l4, g) ELSE
    LET target_bearing_deg ==
            TargetBearingDeg(bearing_center_deg, field_of_view, a.target_center_x,
                             a.sensor_width_px)
        target_bearing == Radians(target_bearing_deg)
        targetX == App("mul", <<distance_to_object, App("cos", <<target_bearing>>)>>)
        targetY == App("mul", <<distance_to_object, App("sin", <<target_bearing>>)>>)
        l5 == Assign(l4, [target_bearing_deg |-> target_bearing_deg,
                          target_bearing |-> target_bearing])
    IN
    IF a.target_height_px = 0 \/ a.sensor_height_px = 0
    THEN Raise("ZeroDivisionError", l5, g) ELSE
    LET zconst ==
            Div(Mul(Div(R(a.sensor_height_px), R(a.target_height_px)), probable_height),
                R(a.sensor_height_px))
        targetZ == TargetZ(a.sensor_height_px, a.target_center_y, zconst)
        l6 == Assign(l5, [zconst |-> zconst, targetZ |-> targetZ])
    IN  Outcome("None", <<targetX, targetY, targetZ>>, l6, g)

(* ------------- does_classifications_have_probable_heights ------------- *)

\* Faulty variant: the lookup with a default in place of the membership test.
has_probable_height_or_default(g, k) ==
    IF ~Binds(k, {"classification"}, {"classification"})
    THEN Raise("TypeError", Unbound, g)
    ELSE Outcome("None", TRUE, Unbound, g)

does_classifications_have_probable_heights(g, k) ==
    IF ~Binds(k, {"classification"}, {"classification"})
    THEN Raise("TypeError", Unbound, g)
    ELSE Outcome("None", k.classification \in DOMAIN g.probable_heights, Unbound, g)

(* ------------------------------ inputs -------------------------------- *)

\* The keys of the table and a label that is not a key.
Classifications == DOMAIN probable_heights \cup {"bicycle"}

\* Bearings in radians: below zero, zero, inside a turn, beyond a full turn.
Bearings == {<<-7, 1>>, <<0, 1>>, <<1, 2>>, <<7, 1>>}

Px == 0 .. MaxPx

Altitudes == {<<40, 1>>, <<41, 1>>}

\* focal_length and sensor_width as passed: omitted (None), or floats.
Lenses == {<< >>, [focal_length |-> <<3, 1>>, sensor_width |-> <<8, 1>>]}

\* target_center_y and target_width_px as passed to get_event_pos.
PosExtras ==
    {[target_center_y |-> 2], [target_center_y |-> 1, target_width_px |-> 3]}

\* Keywords outside the signature of get_event_local_pos, as passed by a caller.
LocalPosExtras == {[target_width_px |-> 3]}

\* Calls of get_event_pos without the unused keywords.  The target centre
\* and the target height lie inside the frame.
PosPlainCalls ==
    {base @@ lens :
        base \in UNION {[classification : Classifications, bearing_center : Bearings,
                         source_lat : {<<7, 10>>}, source_lon : {<<-1, 1>>},
                         sensor_width_px : {w}, sensor_height_px : {h},
                         target_center_x : 0 .. w, target_height_px : 0 .. h,
                         altitude : Altitudes] : w \in Px, h \in Px},
        lens \in Lenses}

\* The same calls with the unused keywords passed as well.
PosCalls ==
    PosPlainCalls
    \cup {k @@ extra :
            k \in {c \in PosPlainCalls : c.classification \in {"car", "bicycle"}
                                         /\ c.bearing_center = <<0, 1>>},
            extra \in PosExtras}

\* Calls of get_event_local_pos within its signature, the target inside the frame.
LocalPosPlainCalls ==
    {base @@ lens :
        base \in UNION {[classification : Classifications, bearing_center : Bearings,
                         sensor_width_px : {w}, sensor_height_px : {h},
                         target_center_x : 0 .. w, target_center_y : 0 .. h,
                         target_height_px : 0 .. h] : w \in Px, h \in Px},
        lens \in Lenses}

LocalPosCalls ==
    LocalPosPlainCalls
    \cup {k @@ extra :
            k \in {c \in LocalPosPlainCalls : c.classification \in {"car", "bicycle"}
                                              /\ c.bearing_center = <<0, 1>>},
            extra \in LocalPosExtras}

HeightCalls == [classification : Classifications]

(* --------------------------- state machine ---------------------------- *)

Init ==
    /\ pc = "idle"
    /\ fn = ""
    /\ kw = << >>
    /\ exc = "None"
    /\ ret = None
    /\ locals = Unbound
    /\ globals = Consts

\* A caller invokes f with keywords k; the call runs to its end with outcome out.
Call(f, k, out) ==
    /\ pc' = "returned"
    /\ fn' = f
    /\ kw' = k
    /\ exc' = out.exc
    /\ ret' = out.ret
    /\ locals' = out.locals
    /\ globals' = out.globals

GetEventPos ==
    /\ pc = "idle"
    /\ \E k \in PosCalls : Call("get_event_pos", k, get_event_pos(globals, k))

GetEventLocalPos ==
    /\ pc = "idle"
    /\ \E k \in LocalPosCalls :
        Call("get_event_local_pos", k, get_event_local_pos(globals, k))

DoesClassificationsHaveProbableHeights ==
    /\ pc = "idle"
    /\ \E k \in HeightCalls :
        Call("does_classifications_have_probable_heights", k,
             does_classifications_have_probable_heights(globals, k))

\* The caller takes the result (or the exception); the frame is gone.
Return ==
    /\ pc = "returned"
    /\ pc' = "idle"
    /\ fn' = ""
    /\ kw' = << >>
    /\ exc' = "None"
    /\ ret' = None
    /\ locals' = Unbound
    /\ UNCHANGED globals

Next ==
    \/ GetEventPos
    \/ GetEventLocalPos
    \/ DoesClassificationsHaveProbableHeights
    \/ Return

Spec == Init /\ [][Next]_vars

(* ----------------------------- properties ----------------------------- *)

Returned(f) == pc = "returned" /\ fn = f

PositionCall == pc = "returned" /\ fn \in {"get_event_pos", "get_event_local_pos"}

\* The call ran its body to the end and returned a position.
Completed == PositionCall /\ exc = "None"

\* The keys of the default table, as the specification lists them.
DefaultKeys ==
    {"person", "car", "motorcycle", "truck", "airplane", "traffic light", "boat"}

\* The assumed height the specification gives a label: table value or 1.0 m.
SpecHeight(c) ==
    CASE c = "person" -> <<17, 10>>
      [] c = "car" -> <<8, 5>>
      [] c = "motorcycle" -> <<1, 1>>
      [] c = "truck" -> <<9, 5>>
      [] c = "airplane" -> <<15, 1>>
      [] c = "traffic light" -> <<3, 5>>
      [] c = "boat" -> <<30, 1>>
      [] OTHER -> <<1, 1>>

\* The outcome of the call f(**k) run against the module globals g.
Run(f, g, k) ==
    CASE f = "get_event_pos" -> get_event_pos(g, k)
      [] f = "get_event_local_pos" -> get_event_local_pos(g, k)
      [] OTHER -> does_classifications_have_probable_heights(g, k)

\* k without the keywords in names.
Without(k, names) == [n \in DOMAIN k \ names |-> k[n]]

\* C1: get_event_pos computes with twice the table/default height when
\* altitude > 40 and with the undoubled height when altitude <= 40 (40 itself
\* is not doubled; "car" is 3.2 at altitude 41 and 1.6 at altitude 40);
\* get_event_local_pos always computes with the undoubled height.
C1_AltitudeDoubling ==
    PositionCall /\ locals.probable_height # None =>
        /\ fn = "get_event_pos" /\ Gt(kw.altitude, <<40, 1>>) =>
               locals.probable_height = Mul(<<2, 1>>, SpecHeight(kw.classification))
        /\ fn = "get_event_pos" /\ ~Gt(kw.altitude, <<40, 1>>) =>
               locals.probable_height = SpecHeight(kw.classification)
        /\ fn = "get_event_local_pos" =>
               /\ locals.probable_height = SpecHeight(kw.classification)
               /\ "altitude" \notin LocalPosParams
        /\ fn = "get_event_pos" /\ kw.classification = "car" =>
               locals.probable_height =
                   IF kw.altitude = <<41, 1>> THEN <<16, 5>>
                   ELSE IF kw.altitude = <<40, 1>> THEN <<8, 5>>
                   ELSE locals.probable_height

\* A completed get_event_pos call for "car" at altitude 41 that used 3.2 m.
C1_Witness ==
    /\ Returned("get_event_pos") /\ exc = "None"
    /\ kw.classification = "car" /\ kw.altitude = <<41, 1>>
    /\ locals.probable_height = <<16, 5>>

\* C2 as stated: in get_event_local_pos with sensor_height_px > 0,
\* target_height_px > 0 and a positive assumed height, Z > 0 whenever
\* target_center_y > sensor_height_px / 2 and Z < 0 whenever
\* target_center_y < sensor_height_px / 2.
C2_ZSignAsStated ==
    /\ Returned("get_event_local_pos") /\ exc = "None"
    /\ kw.sensor_height_px > 0 /\ kw.target_height_px > 0
    /\ Gt(locals.probable_height, <<0, 1>>)
    => /\ 2 * kw.target_center_y > kw.sensor_height_px => Gt(ret[3], <<0, 1>>)
       /\ 2 * kw.target_center_y < kw.sensor_height_px => Lt(ret[3], <<0, 1>>)

\* C2 (amended): under the same conditions Z > 0 whenever
\* sensor_height_px / 2 < target_center_y < sensor_height_px, Z = 0 when
\* target_center_y = sensor_height_px, and Z < 0 whenever
\* target_center_y < sensor_height_px / 2.
C2_ZSignInsideFrame ==
    /\ Returned("get_event_local_pos") /\ exc = "None"
    /\ kw.sensor_height_px > 0 /\ kw.target_height_px > 0
    /\ Gt(locals.probable_height, <<0, 1>>)
    => /\ 2 * kw.target_center_y > kw.sensor_height_px
          /\ kw.target_center_y < kw.sensor_height_px => Gt(ret[3], <<0, 1>>)
       /\ kw.target_center_y = kw.sensor_height_px => ret[3] = <<0, 1>>
       /\ 2 * kw.target_center_y < kw.sensor_height_px => Lt(ret[3], <<0, 1>>)

\* A returned local position with the centre strictly between the middle
\* and the bottom edge of the frame, and Z positive.
C2_Witness ==
    /\ Returned("get_event_local_pos") /\ exc = "None"
    /\ 2 * kw.target_center_y > kw.sensor_height_px
    /\ kw.target_center_y < kw.sensor_height_px
    /\ Gt(ret[3], <<0, 1>>)

\* C3: in both position functions, a call within the signature in which
\* target_height_px, sensor_width_px or sensor_height_px is 0 ends in an
\* uncaught ZeroDivisionError and returns no position: no validation, no
\* fallback result.
C3_ZeroRaises ==
    /\ PositionCall
    /\ fn = "get_event_local_pos" => DOMAIN kw \subseteq LocalPosParams
    /\ kw.target_height_px = 0 \/ kw.sensor_width_px = 0 \/ kw.sensor_height_px = 0
    => exc = "ZeroDivisionError" /\ ret = None

\* A get_event_pos call whose only zero is target_height_px, ended by the error.
C3_Witness ==
    /\ Returned("get_event_pos")
    /\ kw.target_height_px = 0 /\ kw.sensor_width_px > 0 /\ kw.sensor_height_px > 0
    /\ exc = "ZeroDivisionError" /\ ret = None

\* C4: get_event_pos accepts target_center_y and target_width_px,
\* get_event_local_pos accepts target_width_px, and whenever the call without
\* them succeeds, the call that passes them succeeds and returns the same
\* result.
C4_UnusedAcceptedNoEffect ==
    PositionCall =>
        LET unused == IF fn = "get_event_pos"
                      THEN {"target_center_y", "target_width_px"}
                      ELSE {"target_width_px"}
            plain == Run(fn, Consts, Without(kw, unused))
        IN  DOMAIN kw \cap unused # {} /\ plain.exc = "None" =>
                exc = "None" /\ ret = plain.ret

C6_DefaultHeight ==
    PositionCall /\ exc # "TypeError" =>
        LET doubled == fn = "get_event_pos" /\ Gt(kw.altitude, <<40, 1>>)
            base == IF kw.classification \in DefaultKeys
                    THEN SpecHeight(kw.classification) ELSE <<1, 1>>
        IN  /\ kw.classification \notin DefaultKeys =>
                   exc = Run(fn, Consts, [kw EXCEPT !.classification = "car"]).exc
            /\ locals.probable_height # None =>
                   locals.probable_height = IF doubled THEN Mul(<<2, 1>>, base) ELSE base
            /\ locals.distance_to_object # None =>
                   locals.distance_to_object =
                       Div(Mul(IF doubled THEN Mul(<<2, 1>>, base) ELSE base,
                               locals.focal_length),
                           locals.height_on_sensor)

\* A completed local-position call for a label outside the table, at 1.0 m.
C6_Witness ==
    /\ Returned("get_event_local_pos") /\ exc = "None"
    /\ kw.classification \notin DefaultKeys
    /\ locals.probable_height = <<1, 1>>

\* C7: does_classifications_have_probable_heights returns true exactly for
\* the keys of the table (person, car, motorcycle, truck, airplane, traffic
\* light, boat; true for "car", false for "bicycle") and never raises.
C7_KnownHeights ==
    Returned("does_classifications_have_probable_heights") =>
        /\ exc = "None"
        /\ ret = (kw.classification \in DefaultKeys)

\* The check has answered false for "bicycle".
C7_Witness ==
    /\ Returned("does_classifications_have_probable_heights")
    /\ kw.classification = "bicycle"
    /\ ret = FALSE

\* The detection is centred on the column sensor_width_px / 2 of a valid camera.
CentredColumn ==
    /\ Completed
    /\ kw.sensor_width_px > 0 /\ 2 * kw.target_center_x = kw.sensor_width_px
    /\ Gt(locals.focal_length, <<0, 1>>) /\ Gt(locals.sensor_width, <<0, 1>>)

\* A full turn, 2 * math.pi.
FullTurn == Mul(<<2, 1>>, PI)

\* C8 as stated: for a detection whose target_center_x is sensor_width_px / 2
\* the target bearing equals bearing_center, for every bearing_center.
C8_CentredBearingAsStated ==
    CentredColumn => locals.target_bearing = kw.bearing_center

\* C8 (amended): for such a detection the target bearing is bearing_center
\* brought into [0, 2 pi) by whole turns; it equals bearing_center exactly
\* when 0 <= bearing_center < 2 pi.
C8_CentredBearingNormalized ==
    CentredColumn =>
        /\ \E n \in -2 .. 2 :
               locals.target_bearing = Add(kw.bearing_center, Mul(<<n, 1>>, FullTurn))
        /\ ~Lt(locals.target_bearing, <<0, 1>>)
        /\ Lt(locals.target_bearing, FullTurn)
        /\ locals.target_bearing = kw.bearing_center
               <=> ~Lt(kw.bearing_center, <<0, 1>>) /\ Lt(kw.bearing_center, FullTurn)

\* A centred detection of a camera whose bearing is beyond a full turn: the
\* target bearing is the camera bearing less one turn.
C8_Witness ==
    /\ CentredColumn
    /\ kw.bearing_center = <<7, 1>>
    /\ locals.target_bearing = Sub(<<7, 1>>, FullTurn)

\* C9: the normalized camera bearing in degrees lies in [0, 360) for any
\* bearing_center, negative, zero or beyond a full turn, in both functions.
C9_BearingDegRange ==
    PositionCall /\ locals.bearing_center_deg # None =>
        /\ ~Lt(locals.bearing_center_deg, <<0, 1>>)
        /\ Lt(locals.bearing_center_deg, <<360, 1>>)

\* A negative camera bearing normalized into [0, 360).
C9_Witness ==
    /\ PositionCall /\ locals.bearing_center_deg # None
    /\ Lt(kw.bearing_center, <<0, 1>>)
    /\ ~Lt(locals.bearing_center_deg, <<0, 1>>)
    /\ Lt(locals.bearing_center_deg, <<360, 1>>)

\* C10: with a positive assumed height, target_height_px > 0 and valid
\* camera parameters, distance_to_object = (height * focal_length) /
\* height_on_sensor is computed and is strictly positive.
C10_DistancePositive ==
    /\ PositionCall /\ exc # "TypeError"
    /\ kw.target_height_px > 0 /\ kw.sensor_width_px > 0 /\ kw.sensor_height_px > 0
    /\ Gt(locals.focal_length, <<0, 1>>) /\ Gt(locals.sensor_width, <<0, 1>>)
    /\ Gt(locals.probable_height, <<0, 1>>)
    => /\ locals.distance_to_object # None
       /\ locals.distance_to_object =
              Div(Mul(locals.probable_height, locals.focal_length),
                  locals.height_on_sensor)
       /\ Gt(locals.distance_to_object, <<0, 1>>)

\* A completed call with a positive distance for a camera given by keyword.
C10_Witness ==
    /\ Returned("get_event_local_pos") /\ exc = "None"
    /\ kw.target_height_px > 0
    /\ "focal_length" \in DOMAIN kw /\ kw.focal_length = <<3, 1>>
    /\ Gt(locals.distance_to_object, <<0, 1>>)
====
